---- MODULE Spec2Model ----
(***************************************************************************)
(* State-machine model of the migrator package (Runner.Up, Runner.Down,    *)
(* Runner.Status and their helpers) of aatuh/api-toolkit.                  *)
(*                                                                         *)
(* The database is one shared store (tracking table, schema effects and    *)
(* the session-scoped advisory lock); every process owns a Runner and a    *)
(* database/sql pool whose statements run on an arbitrary pooled           *)
(* connection.  The migration sources are files on disk, named by their    *)
(* characters so that the filename grammar is computed, not assumed.       *)
(***************************************************************************)
EXTENDS Integers, Sequences, FiniteSets, TLC

(***************************************************************************)
(* Bounds of the model.                                                    *)
(***************************************************************************)
MaxCalls == 3      \* Up/Down/Status calls started in one behaviour
MaxEdits == 1      \* changes made to the source files in one behaviour
MaxRestarts == 1   \* process restarts (a new Runner on a new pool)
MaxClock == 4      \* largest value NOW() takes
MaxTxCalls == 3    \* WithinTx calls started in one behaviour
MaxHealthCalls == 3  \* GetLiveness/GetReadiness calls in one behaviour
MaxHealthClock == 6  \* largest value of time.Now(), in seconds

(***************************************************************************)
(* Program constants.                                                      *)
(***************************************************************************)
MinVersionDigits == 8
MaxVersionDigits == 14

Procs == {"p1", "p2"}
Conns == {1, 2}

None == "none"

(***************************************************************************)
(* Characters and strings.  A string is a sequence of one-character        *)
(* strings.                                                                *)
(***************************************************************************)
Digits == {"0", "1", "2", "3", "4", "5", "6", "7", "8", "9"}

DigitVal(c) ==
    CASE c = "0" -> 0 [] c = "1" -> 1 [] c = "2" -> 2 [] c = "3" -> 3
      [] c = "4" -> 4 [] c = "5" -> 5 [] c = "6" -> 6 [] c = "7" -> 7
      [] c = "8" -> 8 [] c = "9" -> 9

\* Byte value of the characters the file names of the model use.
Ord(c) ==
    CASE c = "-" -> 45 [] c = "." -> 46
      [] c \in Digits -> 48 + DigitVal(c)
      [] c = "_" -> 95
      [] c = "a" -> 97 [] c = "b" -> 98 [] c = "c" -> 99 [] c = "d" -> 100
      [] c = "l" -> 108 [] c = "n" -> 110 [] c = "o" -> 111 [] c = "p" -> 112
      [] c = "q" -> 113 [] c = "s" -> 115 [] c = "t" -> 116 [] c = "u" -> 117
      [] c = "w" -> 119 [] c = "x" -> 120 [] c = "z" -> 122

NameChars == Digits \cup {"_", "-", "a", "b", "c", "d", "l", "n", "o", "p",
                          "q", "s", "t", "u", "w", "x", "z"}

RECURSIVE StrLess(_, _)
StrLess(a, b) ==
    IF b = <<>> THEN FALSE
    ELSE IF a = <<>> THEN TRUE
    ELSE IF Ord(Head(a)) # Ord(Head(b)) THEN Ord(Head(a)) < Ord(Head(b))
    ELSE StrLess(Tail(a), Tail(b))

IsSpace(c) == c \in {" ", "\n", "\t"}

RECURSIVE TrimLeft(_)
TrimLeft(s) ==
    IF s # <<>> /\ IsSpace(Head(s)) THEN TrimLeft(Tail(s)) ELSE s

RECURSIVE TrimRight(_)
TrimRight(s) ==
    IF s # <<>> /\ IsSpace(s[Len(s)])
    THEN TrimRight(SubSeq(s, 1, Len(s) - 1)) ELSE s

TrimSpace(s) == TrimRight(TrimLeft(s))

\* sha256 in hex: a fingerprint that two different texts never share.
checksum(s) == <<"sha256">> \o s

(***************************************************************************)
(* parseFileName: ^(\d{8,14})_([a-zA-Z0-9_\-]+)\.(up|down)\.sql$           *)
(***************************************************************************)
RECURSIVE CountWhile(_, _)
CountWhile(s, set) ==
    IF s # <<>> /\ Head(s) \in set THEN 1 + CountWhile(Tail(s), set) ELSE 0

RECURSIVE ParseInt(_, _)
ParseInt(s, acc) ==
    IF s = <<>> THEN acc ELSE ParseInt(Tail(s), 10 * acc + DigitVal(Head(s)))

Drop(s, n) == SubSeq(s, n + 1, Len(s))

UpSuffix == <<".", "u", "p", ".", "s", "q", "l">>
DownSuffix == <<".", "d", "o", "w", "n", ".", "s", "q", "l">>

NoMigration == [ok |-> FALSE]

parseFileName(name) ==
    LET nd == CountWhile(name, Digits)
        rest == Drop(name, nd)
        nn == IF rest = <<>> THEN 0 ELSE CountWhile(Tail(rest), NameChars)
        suffix == IF rest = <<>> THEN <<>> ELSE Drop(Tail(rest), nn)
    IN  IF /\ nd >= MinVersionDigits
           /\ nd <= MaxVersionDigits
           /\ rest # <<>>
           /\ Head(rest) = "_"
           /\ nn >= 1
           /\ suffix \in {UpSuffix, DownSuffix}
        THEN [ok |-> TRUE,
              Version |-> ParseInt(SubSeq(name, 1, nd), 0),
              Name |-> SubSeq(Tail(rest), 1, nn),
              Dir |-> IF suffix = UpSuffix THEN "up" ELSE "down",
              File |-> name]
        ELSE NoMigration

(***************************************************************************)
(* The migration sources: directories and embedded bundles holding files.  *)
(***************************************************************************)
N1aUp == <<"0","0","0","0","0","0","0","1","_","a",".","u","p",".","s","q","l">>
N1aDown == <<"0","0","0","0","0","0","0","1","_","a",".","d","o","w","n",".","s","q","l">>
N2bUp == <<"0","0","0","0","0","0","0","2","_","b",".","u","p",".","s","q","l">>
N3cUp == <<"0","0","0","0","0","0","0","3","_","c",".","u","p",".","s","q","l">>
N1zUp == <<"0","0","0","0","0","0","0","0","1","_","z",".","u","p",".","s","q","l">>
NNotes == <<"n","o","t","e","s",".","t","x","t">>

\* The files a behaviour may hold: slot -> (root, file name).
Slots == 1 .. 8

SlotRoot(s) ==
    CASE s \in {1, 2, 3, 4, 5, 8} -> "d1"
      [] s = 6 -> "d2"
      [] s = 7 -> "e1"

SlotName(s) ==
    CASE s = 1 -> N1aUp
      [] s = 2 -> N1aDown
      [] s = 3 -> N2bUp
      [] s = 4 -> N3cUp
      [] s = 5 -> N1zUp
      [] s = 6 -> N2bUp
      [] s = 7 -> N1aUp
      [] s = 8 -> NNotes

\* Directories that exist on disk, and embedded bundles.
DirsOnDisk == {"d1", "d2"}
Bundles == {"e1"}

Absent == [kind |-> "absent", body |-> <<>>]
Unreadable == [kind |-> "unreadable", body |-> <<>>]
SubDir == [kind |-> "dir", body |-> <<>>]
File(b) == [kind |-> "file", body |-> b]

\* Script bodies: "x" and "y" stand for two different SQL texts.
Bodies == {<<"x">>, <<"x", "\n">>, <<"y">>, <<>>}

Contents == {Absent, Unreadable, SubDir} \cup {File(b) : b \in Bodies}

BaseDisk ==
    [s \in Slots |->
        IF s \in {1, 2, 3} THEN File(<<"x">>)
        ELSE IF s = 8 THEN File(<<"y">>)
        ELSE Absent]

(***************************************************************************)
(* Options (New leaves the source lists as given).                         *)
(***************************************************************************)
OptFull ==
    [MigrationsDir |-> "d1", MigrationsDirs |-> <<"d1", "d2">>,
     EmbeddedFSs |-> <<"e1">>, AllowDangerousDown |-> TRUE]
OptNoDown == [OptFull EXCEPT !.AllowDangerousDown = FALSE]
OptNoSource ==
    [MigrationsDir |-> "", MigrationsDirs |-> <<"">>,
     EmbeddedFSs |-> <<>>, AllowDangerousDown |-> TRUE]
OptMissingDir ==
    [MigrationsDir |-> "", MigrationsDirs |-> <<"d1", "dx">>,
     EmbeddedFSs |-> <<>>, AllowDangerousDown |-> TRUE]

OptionSet == {OptFull, OptNoDown, OptNoSource, OptMissingDir}

(***************************************************************************)
(* loadMigrations                                                          *)
(***************************************************************************)
RECURSIVE uniqDirs(_, _)
uniqDirs(dirs, seen) ==
    IF dirs = <<>> THEN <<>>
    ELSE IF Head(dirs) = "" \/ Head(dirs) \in seen
         THEN uniqDirs(Tail(dirs), seen)
         ELSE <<Head(dirs)>> \o uniqDirs(Tail(dirs), seen \cup {Head(dirs)})

Roots(o) ==
    uniqDirs((IF o.MigrationsDir # "" THEN <<o.MigrationsDir>> ELSE <<>>)
                \o o.MigrationsDirs, {})
      \o o.EmbeddedFSs

RootExists(root) == root \in DirsOnDisk \cup Bundles

RECURSIVE SortByName(_)
SortByName(S) ==
    IF S = {} THEN <<>>
    ELSE LET m == CHOOSE x \in S :
                    \A y \in S \ {x} : StrLess(SlotName(x), SlotName(y))
         IN  <<m>> \o SortByName(S \ {m})

\* fs.ReadDir: the entries of one root, sorted by file name.
ReadDir(d, root) ==
    SortByName({s \in Slots : SlotRoot(s) = root /\ d[s].kind # "absent"})

RECURSIVE AllFiles(_, _)
AllFiles(d, roots) ==
    IF roots = <<>> THEN <<>>
    ELSE SelectSeq(ReadDir(d, Head(roots)), LAMBDA s : d[s].kind # "dir")
           \o AllFiles(d, Tail(roots))

MigKey(m) == <<m.Version, m.Dir>>

\* A load that never takes a file for a duplicate.
NeverRegistered(key, seenMig) == FALSE

\* seenMig[key]: a file of this load attempt already has the key.
Registered(key, seenMig) == key \in seenMig

RECURSIVE Collect(_, _, _, _)
Collect(d, all, migs, seenMig) ==
    IF all = <<>> THEN [migrations |-> migs, err |-> None]
    ELSE LET s == Head(all)
             m == parseFileName(SlotName(s))
         IN  IF ~m.ok THEN Collect(d, Tail(all), migs, seenMig)
             ELSE IF Registered(MigKey(m), seenMig)
                  THEN [migrations |-> migs, err |-> "duplicate migration"]
             ELSE IF d[s].kind = "unreadable"
                  THEN [migrations |-> migs, err |-> "read file"]
             ELSE LET sql == TrimSpace(d[s].body)
                      mig == [Version |-> m.Version, Name |-> m.Name,
                              Dir |-> m.Dir, File |-> m.File,
                              SQL |-> sql, Checksum |-> checksum(sql)]
                  IN  Collect(d, Tail(all), Append(migs, mig),
                              seenMig \cup {MigKey(m)})

DirLess(a, b) == a = "down" /\ b = "up"

\* The less functions handed to sort.Slice: by (Version, Dir) in
\* loadMigrations, by Version in pendingUp.
MigrationLess(a, b) ==
    IF a.Version = b.Version THEN DirLess(a.Dir, b.Dir)
    ELSE a.Version < b.Version

VersionLess(a, b) == a.Version < b.Version

Less(by, a, b) ==
    IF by = "version,dir" THEN MigrationLess(a, b) ELSE VersionLess(a, b)

\* Insertion sort, as sort.Slice runs it on a slice of fewer than 12 elements.
RECURSIVE Insert(_, _, _)
Insert(sorted, x, by) ==
    IF sorted = <<>> THEN <<x>>
    ELSE IF Less(by, x, sorted[Len(sorted)])
         THEN Append(Insert(SubSeq(sorted, 1, Len(sorted) - 1), x, by),
                     sorted[Len(sorted)])
         ELSE Append(sorted, x)

RECURSIVE SortSlice(_, _)
SortSlice(s, by) ==
    IF s = <<>> THEN <<>>
    ELSE Insert(SortSlice(SubSeq(s, 1, Len(s) - 1), by), s[Len(s)], by)

\* The Runner after loadMigrations, and the error it returns.
loadMigrations(r, o, d) ==
    IF r.loaded THEN [migrations |-> r.migrations, loaded |-> TRUE, err |-> None]
    ELSE IF Roots(o) = <<>>
         THEN [migrations |-> r.migrations, loaded |-> FALSE,
               err |-> "no migrations source provided"]
    ELSE IF \E i \in 1 .. Len(Roots(o)) : ~RootExists(Roots(o)[i])
         THEN [migrations |-> r.migrations, loaded |-> FALSE, err |-> "readdir"]
    ELSE LET c == Collect(d, AllFiles(d, Roots(o)), r.migrations, {})
         IN  IF c.err # None
             THEN [migrations |-> c.migrations, loaded |-> FALSE, err |-> c.err]
             ELSE [migrations |-> SortSlice(c.migrations, "version,dir"),
                   loaded |-> TRUE, err |-> None]

find(migrations, version, dir) ==
    IF \E i \in 1 .. Len(migrations) :
           migrations[i].Version = version /\ migrations[i].Dir = dir
    THEN LET i == CHOOSE k \in 1 .. Len(migrations) :
                    /\ migrations[k].Version = version
                    /\ migrations[k].Dir = dir
                    /\ \A j \in 1 .. k - 1 :
                          ~(migrations[j].Version = version
                            /\ migrations[j].Dir = dir)
         IN  [found |-> TRUE, m |-> migrations[i]]
    ELSE [found |-> FALSE]

(***************************************************************************)
(* The tracking table: rows keyed by version.                              *)
(***************************************************************************)
\* Rows ordered by version alone.
RowLessByVersion(a, b) == a.version < b.version

\* ORDER BY applied_at ASC, version ASC
RowLess(a, b) ==
    IF a.applied_at = b.applied_at THEN a.version < b.version
    ELSE a.applied_at < b.applied_at

RECURSIVE OrderRows(_)
OrderRows(rows) ==
    IF rows = {} THEN <<>>
    ELSE LET m == CHOOSE x \in rows : \A y \in rows \ {x} : RowLess(x, y)
         IN  <<m>> \o OrderRows(rows \ {m})

\* SELECT ... ORDER BY applied_at ASC, version ASC
loadApplied(tbl) == OrderRows(tbl)

loadAppliedSuccess(tbl) == SelectSeq(loadApplied(tbl), LAMBDA a : a.success)

\* A plain INSERT into a table without primary key.
InsertRow(tbl, row) == tbl \cup {row}

\* INSERT ... ON CONFLICT (version) DO UPDATE SET every other column
Upsert(tbl, row) == {x \in tbl : x.version # row.version} \cup {row}

NewRow(m, now, execMS, ok) ==
    [version |-> m.Version, name |-> m.Name, checksum |-> m.Checksum,
     applied_at |-> now, exec_ms |-> execMS, success |-> ok]

\* A DELETE that also removes the failure rows.
DeleteVersionAndFailures(tbl, v) == {x \in tbl : x.version # v /\ x.success}

\* DELETE FROM table WHERE version = $1, and the rows it affects
DeleteVersion(tbl, v) == {x \in tbl : x.version # v}
RowsAffected(tbl, v) == Cardinality({x \in tbl : x.version = v})

(***************************************************************************)
(* pendingUp                                                               *)
(***************************************************************************)
\* appliedSet that keeps the failed rows too.
appliedSetAnyRow(applied) ==
    LET I == 1 .. Len(applied)
        V == {applied[i].version : i \in I}
    IN  [v \in V |->
            applied[CHOOSE i \in I :
                       /\ applied[i].version = v
                       /\ \A j \in I : applied[j].version = v => j <= i]]

\* appliedSet: version -> the successful row of that version.
appliedSet(applied) ==
    LET I == {i \in 1 .. Len(applied) : applied[i].success}
        V == {applied[i].version : i \in I}
    IN  [v \in V |->
            applied[CHOOSE i \in I :
                       /\ applied[i].version = v
                       /\ \A j \in I : applied[j].version = v => j <= i]]

\* pendingUp without the checksum comparison.
pendingUpUnchecked(migrations, applied) ==
    LET aset == appliedSet(applied)
        ups == SelectSeq(migrations, LAMBDA m : m.Dir = "up")
    IN  [panic |-> FALSE,
         pending |-> SortSlice(
             SelectSeq(ups, LAMBDA m : m.Version \notin DOMAIN aset),
             "version")]

\* pendingUp without the direction test: Down scripts are pending too.
pendingUpAnyDir(migrations, applied) ==
    LET aset == appliedSet(applied)
        ups == migrations
        mismatch == \E i \in 1 .. Len(ups) :
                       /\ ups[i].Version \in DOMAIN aset
                       /\ aset[ups[i].Version].checksum # ups[i].Checksum
    IN  IF mismatch THEN [panic |-> TRUE, pending |-> <<>>]
        ELSE [panic |-> FALSE,
              pending |-> SortSlice(
                  SelectSeq(ups, LAMBDA m : m.Version \notin DOMAIN aset),
                  "version")]

pendingUp(migrations, applied) ==
    LET aset == appliedSet(applied)
        ups == SelectSeq(migrations, LAMBDA m : m.Dir = "up")
        mismatch == \E i \in 1 .. Len(ups) :
                       /\ ups[i].Version \in DOMAIN aset
                       /\ aset[ups[i].Version].checksum # ups[i].Checksum
    IN  IF mismatch THEN [panic |-> TRUE, pending |-> <<>>]
        ELSE [panic |-> FALSE,
              pending |-> SortSlice(
                  SelectSeq(ups, LAMBDA m : m.Version \notin DOMAIN aset),
                  "version")]

(***************************************************************************)
(* State.                                                                  *)
(***************************************************************************)
VARIABLES
    disk,         \* slot -> content of the file
    opts,         \* the Options every Runner is built with
    tableExists,  \* the tracking table has been created
    table,        \* the rows of the tracking table
    effects,      \* versions whose Up SQL effects are committed in the schema
    clock,        \* the value of NOW()
    locks,        \* database session -> times it holds the advisory lock
    runner,       \* process -> its Runner (migrations, loaded)
    call,         \* process -> the Up/Down/Status call it is in or last made
                  \* (prior: lastNil when the call started; applied: the
                  \* rows the call read; tx: its transaction)
    calls,        \* calls started so far
    edits,        \* source changes so far
    restarts,     \* process restarts so far
    lastNil,      \* table and registry when an Up last returned nil
    reverted      \* versions whose row a Down call has deleted (history)

\* txpostgres.Manager: the goroutines calling WithinTx on one pool.
VARIABLES
    wtx,          \* goroutine -> the WithinTx call it is in or last made
    idle,         \* the idle connections of the pool
    store,        \* what committed transactions wrote
    txcalls       \* WithinTx calls started so far

\* health.Manager
VARIABLES
    hconfig,      \* the HealthCheckConfig the manager was built with
    checkers,     \* the names of the registered checkers
    cache,        \* checker name -> cached result, or NoResult
    hnow,         \* time.Now()
    hresult,      \* what the last GetLiveness or GetReadiness returned
    hcalls        \* calls on the manager so far

migratorVars == <<disk, opts, tableExists, table, effects, clock, locks,
                  runner, call, calls, edits, restarts, lastNil, reverted>>
txVars == <<wtx, idle, store, txcalls>>
healthVars == <<hconfig, checkers, cache, hnow, hresult, hcalls>>

vars == <<migratorVars, txVars, healthVars>>

Sessions == Procs \X Conns

Nil == "nil"
ErrDisabled == "down is disabled; set AllowDangerousDown=true to enable"
ErrNoDown == "no down migration for version"
ErrNoRowDeleted == "no row deleted"
PanicDrift == "panic: checksum mismatch"

ExecTimes == {0}

NewRunner == [migrations |-> <<>>, loaded |-> FALSE]

\* No Up has returned nil yet.
NoNil == [valid |-> FALSE, table |-> {}, migrations |-> <<>>]

\* The transaction of a call: none begun yet, open, committed, rolled back
\* by tx.Rollback(), or ended by the database library without a commit
\* (tx.Commit() failed).
TxNone == "none"
TxOpen == "open"
TxCommitted == "committed"
TxRolledBack == "rolled back"
TxClosed == "closed"

IdleCall ==
    [pc |-> "idle", op |-> "none", ctxDone |-> FALSE, pending |-> <<>>,
     ok |-> FALSE, ms |-> 0, err |-> None, ret |-> None, sel |-> 0,
     txSQL |-> FALSE, log |-> <<>>, prior |-> NoNil, applied |-> <<>>,
     tx |-> TxNone]

\* The sources a behaviour starts from: the base files (versions 1 and 2);
\* version 3 as well; version 1 not yet written; a second (1, up) file in
\* the same directory, in the embedded bundle; a second (2, up) file in the
\* other directory; an unreadable file; a down script of white space only.
InitDisks ==
    {BaseDisk,
     [BaseDisk EXCEPT ![4] = File(<<"x">>)],
     [BaseDisk EXCEPT ![1] = Absent],
     [BaseDisk EXCEPT ![5] = File(<<"y">>)],
     [BaseDisk EXCEPT ![6] = File(<<"x">>)],
     [BaseDisk EXCEPT ![7] = File(<<"y">>)],
     [BaseDisk EXCEPT ![3] = Unreadable],
     [BaseDisk EXCEPT ![2] = File(<<"\n">>)]}

\* Every source state under the full options, every option set over the
\* base files.
InitConfigs ==
    {<<d, OptFull>> : d \in InitDisks} \cup {<<BaseDisk, o>> : o \in OptionSet}

(***************************************************************************)
(* txpostgres.Manager.WithinTx: the state of a call and of the pool.       *)
(***************************************************************************)
Goroutines == {"g1", "g2"}
PoolConns == {1, 2}

\* A WithinTx call: position, the connection it acquired (0: none), its
\* transaction, how often it called fn, Commit, Rollback and Release, what
\* fn returned, whether fn wrote through the transaction, what WithinTx
\* returned, and the number of the call.
IdleTx ==
    [pc |-> "idle", conn |-> 0, tx |-> TxNone, fnCalls |-> 0, fnRes |-> None,
     wrote |-> FALSE, commits |-> 0, rollbacks |-> 0, released |-> 0,
     ret |-> None, token |-> 0]

InitTx ==
    /\ wtx = [g \in Goroutines |-> IdleTx]
    /\ idle = PoolConns
    /\ store = {}
    /\ txcalls = 0

(***************************************************************************)
(* health.Manager: statuses, configuration and initial state.              *)
(***************************************************************************)
HealthStatusHealthy == "healthy"
HealthStatusUnhealthy == "unhealthy"
HealthStatusDegraded == "degraded"
HealthStatusUnknown == "unknown"

HealthStatuses ==
    {HealthStatusHealthy, HealthStatusUnhealthy, HealthStatusDegraded,
     HealthStatusUnknown}

\* The zero value of HealthStatus (var overallStatus ports.HealthStatus).
NoStatus == ""

CheckerNames == {"basic", "database"}

\* health.New(): caching for five seconds, liveness "basic", readiness
\* "database" then "basic".
DefaultConfig ==
    [CacheDuration |-> 5, EnableCaching |-> TRUE,
     LivenessChecks |-> <<"basic">>,
     ReadinessChecks |-> <<"database", "basic">>]

\* The configurations NewWithConfig is given: the default one, without
\* caching, without liveness checks, readiness on the database alone.
HealthConfigs ==
    {DefaultConfig,
     [DefaultConfig EXCEPT !.EnableCaching = FALSE],
     [DefaultConfig EXCEPT !.LivenessChecks = <<>>,
                           !.ReadinessChecks = <<"database">>],
     [DefaultConfig EXCEPT !.CacheDuration = 1,
                           !.LivenessChecks = <<"database", "basic">>]}

NoCache == [n \in {} |-> 0]

\* Nothing returned yet.
NoHealthResult ==
    [op |-> None, Status |-> None, Timestamp |-> 0, reports |-> <<>>]

InitHealth ==
    /\ hconfig \in HealthConfigs
    /\ checkers = {}
    /\ cache = NoCache
    /\ hnow = 0
    /\ hresult = NoHealthResult
    /\ hcalls = 0

InitMigrator ==
    /\ \E cfg \in InitConfigs : disk = cfg[1] /\ opts = cfg[2]
    /\ tableExists = FALSE
    /\ table = {}
    /\ effects = {}
    /\ clock = 0
    /\ locks = [s \in Sessions |-> 0]
    /\ runner = [p \in Procs |-> NewRunner]
    /\ call = [p \in Procs |-> IdleCall]
    /\ calls = 0
    /\ edits = 0
    /\ restarts = 0
    /\ lastNil = NoNil
    /\ reverted = {}

Init == InitMigrator /\ InitTx /\ InitHealth /\ hconfig = DefaultConfig

Ev(name, v) == [ev |-> name, v |-> v]

Logged(c, name, v) == [c EXCEPT !.log = Append(@, Ev(name, v))]

\* The call record after the protected block (or Status) ended with e:
\* Up and Down run the deferred unlock before they return.
Return(c, e) ==
    IF c.op = "Status" THEN [c EXCEPT !.pc = "idle", !.ret = e]
    ELSE [c EXCEPT !.pc = "unlock", !.err = e]

AllIdle == \A p \in Procs : call[p].pc = "idle"

(***************************************************************************)
(* Entry points.                                                           *)
(***************************************************************************)
CallUp(p) ==
    /\ call[p].pc = "idle"
    /\ calls < MaxCalls
    /\ calls' = calls + 1
    /\ call' = [call EXCEPT ![p] =
                  [IdleCall EXCEPT !.pc = "lock", !.op = "Up",
                                   !.prior = lastNil]]
    /\ UNCHANGED <<disk, opts, tableExists, table, effects, clock, locks,
                   runner, edits, restarts, lastNil, reverted, txVars,
                   healthVars>>

\* Down without the AllowDangerousDown check.
CallDownUnguarded(p) ==
    /\ call[p].pc = "idle"
    /\ calls < MaxCalls
    /\ calls' = calls + 1
    /\ call' = [call EXCEPT ![p] =
                  [IdleCall EXCEPT !.pc = "lock", !.op = "Down"]]
    /\ UNCHANGED <<disk, opts, tableExists, table, effects, clock, locks,
                   runner, edits, restarts, lastNil, reverted, txVars,
                   healthVars>>

CallDown(p) ==
    /\ call[p].pc = "idle"
    /\ calls < MaxCalls
    /\ calls' = calls + 1
    /\ call' = [call EXCEPT ![p] =
                  IF ~opts.AllowDangerousDown
                  THEN [IdleCall EXCEPT !.op = "Down", !.ret = ErrDisabled]
                  ELSE [IdleCall EXCEPT !.pc = "lock", !.op = "Down"]]
    /\ UNCHANGED <<disk, opts, tableExists, table, effects, clock, locks,
                   runner, edits, restarts, lastNil, reverted, txVars,
                   healthVars>>

CallStatus(p) ==
    /\ call[p].pc = "idle"
    /\ calls < MaxCalls
    /\ calls' = calls + 1
    /\ call' = [call EXCEPT ![p] =
                  [IdleCall EXCEPT !.pc = "ensure", !.op = "Status"]]
    /\ UNCHANGED <<disk, opts, tableExists, table, effects, clock, locks,
                   runner, edits, restarts, lastNil, reverted, txVars,
                   healthVars>>

\* How a statement that takes the context of the call ends: it runs, the
\* database fails it, or the context is found cancelled or past its deadline
\* (and stays so for the rest of the call).
Outcomes(c) == IF c.ctxDone THEN {"ctx done"} ELSE {"ok", "error", "ctx done"}

Seen(c, out) == [c EXCEPT !.ctxDone = @ \/ out = "ctx done"]

(***************************************************************************)
(* withLock: pg_advisory_lock on a pooled connection, the block, and the   *)
(* deferred pg_advisory_unlock on a pooled connection.  pool is the set of *)
(* connections the statement may run on.                                   *)
(***************************************************************************)
\* A lock that every session can take at any time.
LockNeverContended(p, c) == TRUE

\* The session <<p, c>> can take the lock: no other session holds it.
LockAvailable(p, c) ==
    \A s \in Sessions : s # <<p, c>> => locks[s] = 0

\* withLock going on to the block whether or not the lock was taken.
AcquireLockUnchecked(p, pool) ==
    /\ call[p].pc = "lock"
    /\ \E c \in pool, out \in Outcomes(call[p]) :
          /\ out = "ok" => LockAvailable(p, c)
          /\ locks' = IF out = "ok" THEN [locks EXCEPT ![<<p, c>>] = @ + 1]
                       ELSE locks
          /\ call' = [call EXCEPT ![p] =
                        Logged([Seen(@, out) EXCEPT !.pc = "ensure"],
                               "lock", c)]
    /\ UNCHANGED <<disk, opts, tableExists, table, effects, clock, runner,
                   calls, edits, restarts, lastNil, reverted, txVars,
                   healthVars>>

AcquireLock(p, pool) ==
    /\ call[p].pc = "lock"
    /\ \E c \in pool, out \in Outcomes(call[p]) :
          /\ out = "ok" => LockAvailable(p, c)
          /\ IF out = "ok"
             THEN /\ locks' = [locks EXCEPT ![<<p, c>>] = @ + 1]
                  /\ call' = [call EXCEPT ![p] =
                                Logged([@ EXCEPT !.pc = "ensure"], "lock", c)]
             ELSE /\ locks' = locks
                  /\ call' = [call EXCEPT ![p] =
                                [Seen(@, out) EXCEPT !.pc = "idle",
                                                     !.ret = "lock error"]]
    /\ UNCHANGED <<disk, opts, tableExists, table, effects, clock, runner,
                   calls, edits, restarts, lastNil, reverted, txVars,
                   healthVars>>

\* The deferred unlock runs under context.Background(), on any connection
\* of the pool; its result is ignored (results: how the statement may end,
\* TRUE without error).  Then the context of the call is cancelled and the
\* call returns what the block returned.
ReleaseLock(p, pool, results) ==
    /\ call[p].pc = "unlock"
    /\ \E c \in pool, ok \in results :
          locks' = IF ok /\ locks[<<p, c>>] > 0
                   THEN [locks EXCEPT ![<<p, c>>] = @ - 1]
                   ELSE locks
    /\ call' = [call EXCEPT ![p] =
                  Logged([@ EXCEPT !.pc = "idle", !.ret = call[p].err,
                                   !.ctxDone = FALSE],
                         "unlock", 0)]
    /\ lastNil' = IF call[p].op = "Up" /\ call[p].err = Nil
                  THEN [valid |-> TRUE, table |-> table,
                        migrations |-> runner[p].migrations]
                  ELSE lastNil
    /\ UNCHANGED <<disk, opts, tableExists, table, effects, clock, runner,
                   calls, edits, restarts, reverted, txVars, healthVars>>

(***************************************************************************)
(* The steps of the protected block (Up, Down) and of Status.              *)
(***************************************************************************)
\* ensureTable whose statement creates nothing.
EnsureTableNoCreate(p) ==
    /\ call[p].pc = "ensure"
    /\ \E out \in Outcomes(call[p]) :
          call' = [call EXCEPT ![p] =
                IF out = "ok" THEN Logged([@ EXCEPT !.pc = "load"], "ensure", 0)
                ELSE Return(Seen(@, out), "ensure error")]
    /\ UNCHANGED <<disk, opts, tableExists, table, effects, clock, locks,
                   runner, calls, edits, restarts, lastNil, reverted, txVars,
                   healthVars>>

\* ensureTable whose statement replaces the table by an empty one.
EnsureTableReplace(p) ==
    /\ call[p].pc = "ensure"
    /\ \E out \in Outcomes(call[p]) :
          IF out = "ok"
          THEN /\ tableExists' = TRUE
               /\ table' = {}
               /\ call' = [call EXCEPT ![p] =
                             Logged([@ EXCEPT !.pc = "load"], "ensure", 0)]
          ELSE /\ tableExists' = tableExists
               /\ table' = table
               /\ call' = [call EXCEPT ![p] =
                             Return(Seen(@, out), "ensure error")]
    /\ UNCHANGED <<disk, opts, effects, clock, locks, runner, calls, edits,
                   restarts, lastNil, reverted, txVars, healthVars>>

\* ensureTable: CREATE TABLE IF NOT EXISTS
EnsureTable(p) ==
    /\ call[p].pc = "ensure"
    /\ \E out \in Outcomes(call[p]) :
          IF out = "ok"
          THEN /\ tableExists' = TRUE
               /\ call' = [call EXCEPT ![p] =
                             Logged([@ EXCEPT !.pc = "load"], "ensure", 0)]
          ELSE /\ tableExists' = tableExists
               /\ call' = [call EXCEPT ![p] =
                             Return(Seen(@, out), "ensure error")]
    /\ UNCHANGED <<disk, opts, table, effects, clock, locks, runner, calls,
                   edits, restarts, lastNil, reverted, txVars, healthVars>>

\* loadMigrations: reads the sources unless the Runner is loaded.
LoadStep(p) ==
    /\ call[p].pc = "load"
    /\ LET res == loadMigrations(runner[p], opts, disk)
           how == IF runner[p].loaded THEN "cached" ELSE "load"
       IN  /\ runner' = [runner EXCEPT ![p] =
                           [migrations |-> res.migrations,
                            loaded |-> res.loaded]]
           /\ call' = [call EXCEPT ![p] =
                         IF res.err # None
                         THEN Return(Logged(@, "load failed", 0), res.err)
                         ELSE Logged([@ EXCEPT !.pc = "read"], how, 0)]
    /\ UNCHANGED <<disk, opts, tableExists, table, effects, clock, locks,
                   calls, edits, restarts, lastNil, reverted, txVars,
                   healthVars>>

\* What Up does with the rows it read: pendingUp, then the first applyOne.
UpAfterRead(c, migrations, applied) ==
    LET pu == pendingUp(migrations, applied)
    IN  IF pu.panic THEN Return(c, PanicDrift)
        ELSE IF Len(pu.pending) = 0 THEN Return(c, Nil)
        ELSE [c EXCEPT !.pc = "begin", !.pending = pu.pending]

\* Down comparing checksums as Up does before it reverts.
DownAfterReadChecked(c, migrations, appliedOK) ==
    IF pendingUp(migrations, appliedOK).panic THEN Return(c, PanicDrift)
    ELSE IF Len(appliedOK) = 0 THEN Return(c, Nil)
    ELSE LET latest == appliedOK[Len(appliedOK)]
             down == find(migrations, latest.version, "down")
         IN  IF ~down.found
             THEN Return([c EXCEPT !.sel = latest.version], ErrNoDown)
             ELSE [c EXCEPT !.sel = latest.version, !.pc = "rbegin",
                            !.pending = <<down.m>>]

\* What Down does with the rows it read: the last successful row, its
\* down script, then revertOne.
DownAfterRead(c, migrations, appliedOK) ==
    IF Len(appliedOK) = 0 THEN Return(c, Nil)
    ELSE LET latest == appliedOK[Len(appliedOK)]
             down == find(migrations, latest.version, "down")
         IN  IF ~down.found
             THEN Return([c EXCEPT !.sel = latest.version], ErrNoDown)
             ELSE [c EXCEPT !.sel = latest.version, !.pc = "rbegin",
                            !.pending = <<down.m>>]

\* What Status does with the rows it read: the report marks pendingUp.
StatusAfterRead(c, migrations, applied) ==
    LET pu == pendingUp(migrations, applied)
    IN  IF pu.panic THEN Return(c, PanicDrift)
        ELSE Return([c EXCEPT !.pending = pu.pending], Nil)

ReadStep(p) ==
    /\ call[p].pc = "read"
    /\ \E out \in Outcomes(call[p]) :
          /\ out = "ok" => tableExists
          /\ call' = [call EXCEPT ![p] =
                IF out # "ok" THEN Return(Seen(@, out), "query error")
                ELSE LET c == Logged([@ EXCEPT !.applied = loadApplied(table)],
                                     "read", 0)
                     IN  CASE c.op = "Up" ->
                                UpAfterRead(c, runner[p].migrations,
                                            loadApplied(table))
                           [] c.op = "Down" ->
                                DownAfterRead(c, runner[p].migrations,
                                              loadAppliedSuccess(table))
                           [] c.op = "Status" ->
                                StatusAfterRead(c, runner[p].migrations,
                                                loadApplied(table))]
    /\ UNCHANGED <<disk, opts, tableExists, table, effects, clock, locks,
                   runner, calls, edits, restarts, lastNil, reverted, txVars,
                   healthVars>>

(***************************************************************************)
(* applyOne                                                                *)
(***************************************************************************)
ApplyBegin(p) ==
    /\ call[p].pc = "begin"
    /\ \E out \in Outcomes(call[p]) :
          call' = [call EXCEPT ![p] =
                IF out = "ok"
                THEN Logged([@ EXCEPT !.pc = "exec", !.tx = TxOpen], "begin",
                            Head(@.pending).Version)
                ELSE Return(Seen(@, out), "begin error")]
    /\ UNCHANGED <<disk, opts, tableExists, table, effects, clock, locks,
                   runner, calls, edits, restarts, lastNil, reverted, txVars,
                   healthVars>>

\* tx.ExecContext(m.SQL); on failure the transaction is rolled back.
ApplyExec(p) ==
    /\ call[p].pc = "exec"
    /\ \E out \in Outcomes(call[p]), ms \in ExecTimes :
          call' = [call EXCEPT ![p] =
                LET v == Head(@.pending).Version
                IN  IF out = "ok"
                    THEN Logged([@ EXCEPT !.pc = "commit", !.ms = ms],
                                "exec", v)
                    ELSE Logged([Seen(@, out) EXCEPT
                                    !.pc = "record", !.ms = ms, !.ok = FALSE,
                                    !.tx = TxRolledBack,
                                    !.err = "migration failed"],
                                "exec failed", v)]
    /\ UNCHANGED <<disk, opts, tableExists, table, effects, clock, locks,
                   runner, calls, edits, restarts, lastNil, reverted, txVars,
                   healthVars>>

ApplyCommit(p) ==
    /\ call[p].pc = "commit"
    /\ \E out \in Outcomes(call[p]) :
          LET v == Head(call[p].pending).Version
          IN  IF out = "ok"
              THEN /\ effects' = effects \cup {v}
                   /\ call' = [call EXCEPT ![p] =
                         Logged([@ EXCEPT !.pc = "record", !.ok = TRUE,
                                          !.tx = TxCommitted],
                                "commit", v)]
              ELSE /\ effects' = effects
                   /\ call' = [call EXCEPT ![p] =
                         Logged([Seen(@, out) EXCEPT
                                    !.pc = "record", !.ok = FALSE,
                                    !.tx = TxClosed,
                                    !.err = "commit error"],
                                "commit failed", v)]
    /\ UNCHANGED <<disk, opts, tableExists, table, clock, locks, runner, calls,
                   edits, restarts, lastNil, reverted, txVars, healthVars>>

\* applyOne dropping the error of the success record as it drops that of
\* the failure record.
AfterRecordDropped(c, wrote) ==
    LET v == Head(c.pending).Version
        d == IF wrote THEN Logged(c, IF c.ok THEN "record ok"
                                     ELSE "record failed", v)
             ELSE Logged(c, "record error", v)
    IN  IF ~c.ok THEN Return(d, c.err)
        ELSE IF Len(c.pending) = 1 THEN Return(d, Nil)
        ELSE [d EXCEPT !.pc = "begin", !.pending = Tail(c.pending)]

\* The call record after record(ctx, m, execMS, c.ok) returned (wrote:
\* without error): applyOne returns, and Up goes on or returns.
AfterRecord(c, wrote) ==
    LET v == Head(c.pending).Version
        d == IF wrote THEN Logged(c, IF c.ok THEN "record ok"
                                     ELSE "record failed", v)
             ELSE Logged(c, "record error", v)
    IN  IF ~c.ok THEN Return(d, c.err)
        ELSE IF ~wrote THEN Return(d, "record error")
        ELSE IF Len(c.pending) = 1 THEN Return(d, Nil)
        ELSE [d EXCEPT !.pc = "begin", !.pending = Tail(c.pending)]

\* NOW() when the next statement runs: time has passed.
Now == IF clock < MaxClock THEN clock + 1 ELSE clock

\* record: the upsert of the tracking row, stamped NOW().
Record(p) ==
    /\ call[p].pc = "record"
    /\ \E out \in Outcomes(call[p]) :
          /\ out = "ok" => tableExists
          /\ clock' = Now
          /\ table' = IF out = "ok"
                      THEN Upsert(table, NewRow(Head(call[p].pending), Now,
                                                call[p].ms, call[p].ok))
                      ELSE table
          /\ call' = [call EXCEPT ![p] =
                        AfterRecord(Seen(@, out), out = "ok")]
    /\ UNCHANGED <<disk, opts, tableExists, effects, locks, runner, calls,
                   edits, restarts, lastNil, reverted, txVars, healthVars>>

(***************************************************************************)
(* revertOne                                                               *)
(***************************************************************************)
RevertBegin(p) ==
    /\ call[p].pc = "rbegin"
    /\ \E out \in Outcomes(call[p]) :
          call' = [call EXCEPT ![p] =
                LET m == Head(@.pending)
                IN  IF out # "ok" THEN Return(Seen(@, out), "begin error")
                    ELSE Logged([@ EXCEPT !.tx = TxOpen, !.pc =
                                    IF TrimSpace(m.SQL) # <<>> THEN "rexec"
                                    ELSE "rdelete"],
                                "begin", m.Version)]
    /\ UNCHANGED <<disk, opts, tableExists, table, effects, clock, locks,
                   runner, calls, edits, restarts, lastNil, reverted, txVars,
                   healthVars>>

\* Run the down SQL first.
RevertExec(p) ==
    /\ call[p].pc = "rexec"
    /\ \E out \in Outcomes(call[p]) :
          call' = [call EXCEPT ![p] =
                LET v == Head(@.pending).Version
                IN  IF out = "ok"
                    THEN Logged([@ EXCEPT !.pc = "rdelete", !.txSQL = TRUE],
                                "exec down", v)
                    ELSE Return(Logged([Seen(@, out) EXCEPT
                                           !.tx = TxRolledBack],
                                       "exec down failed", v),
                                "revert failed")]
    /\ UNCHANGED <<disk, opts, tableExists, table, effects, clock, locks,
                   runner, calls, edits, restarts, lastNil, reverted, txVars,
                   healthVars>>

\* revertOne going on to the commit whatever the DELETE affected.
RevertDeleteUnchecked(p) ==
    /\ call[p].pc = "rdelete"
    /\ \E out \in Outcomes(call[p]) :
          /\ out = "ok" => tableExists
          /\ call' = [call EXCEPT ![p] =
                LET v == Head(@.pending).Version
                IN  IF out # "ok"
                    THEN Return(Logged([Seen(@, out) EXCEPT
                                           !.tx = TxRolledBack],
                                       "delete failed", v),
                                "delete error")
                    ELSE Logged([@ EXCEPT !.pc = "rcommit"], "delete", v)]
    /\ UNCHANGED <<disk, opts, tableExists, table, effects, clock, locks,
                   runner, calls, edits, restarts, lastNil, reverted, txVars,
                   healthVars>>

\* revertOne returning the row-count error without tx.Rollback().
RevertDeleteNoRollback(p) ==
    /\ call[p].pc = "rdelete"
    /\ \E out \in Outcomes(call[p]) :
          /\ out = "ok" => tableExists
          /\ call' = [call EXCEPT ![p] =
                LET v == Head(@.pending).Version
                IN  IF out # "ok"
                    THEN Return(Logged([Seen(@, out) EXCEPT
                                           !.tx = TxRolledBack],
                                       "delete failed", v),
                                "delete error")
                    ELSE IF RowsAffected(table, v) # 1
                         THEN Return(Logged(@, "delete none", v),
                                     ErrNoRowDeleted)
                    ELSE Logged([@ EXCEPT !.pc = "rcommit"], "delete", v)]
    /\ UNCHANGED <<disk, opts, tableExists, table, effects, clock, locks,
                   runner, calls, edits, restarts, lastNil, reverted, txVars,
                   healthVars>>

\* Then delete the "up" record in the same transaction.
RevertDelete(p) ==
    /\ call[p].pc = "rdelete"
    /\ \E out \in Outcomes(call[p]) :
          /\ out = "ok" => tableExists
          /\ call' = [call EXCEPT ![p] =
                LET v == Head(@.pending).Version
                IN  IF out # "ok"
                    THEN Return(Logged([Seen(@, out) EXCEPT
                                           !.tx = TxRolledBack],
                                       "delete failed", v),
                                "delete error")
                    ELSE IF RowsAffected(table, v) # 1
                         THEN Return(Logged([@ EXCEPT !.tx = TxRolledBack],
                                            "delete none", v),
                                     ErrNoRowDeleted)
                    ELSE Logged([@ EXCEPT !.pc = "rcommit"], "delete", v)]
    /\ UNCHANGED <<disk, opts, tableExists, table, effects, clock, locks,
                   runner, calls, edits, restarts, lastNil, reverted, txVars,
                   healthVars>>

\* revertOne whose DELETE runs outside the transaction: the row is gone
\* even when the commit fails.
RevertCommitPartial(p) ==
    /\ call[p].pc = "rcommit"
    /\ \E out \in Outcomes(call[p]) :
          LET v == Head(call[p].pending).Version
          IN  /\ table' = DeleteVersion(table, v)
              /\ reverted' = reverted \cup {v}
              /\ effects' = IF out = "ok" /\ call[p].txSQL THEN effects \ {v}
                            ELSE effects
              /\ call' = [call EXCEPT ![p] =
                    IF out = "ok"
                    THEN Return(Logged([@ EXCEPT !.tx = TxCommitted],
                                       "commit", v), Nil)
                    ELSE Return(Logged([Seen(@, out) EXCEPT !.tx = TxClosed],
                                       "commit failed", v),
                                "commit error")]
    /\ UNCHANGED <<disk, opts, tableExists, clock, locks, runner, calls, edits,
                   restarts, lastNil, txVars, healthVars>>

RevertCommit(p) ==
    /\ call[p].pc = "rcommit"
    /\ \E out \in Outcomes(call[p]) :
          LET v == Head(call[p].pending).Version
          IN  IF out = "ok"
              THEN /\ table' = DeleteVersion(table, v)
                   /\ reverted' = reverted \cup {v}
                   /\ effects' = IF call[p].txSQL THEN effects \ {v}
                                 ELSE effects
                   /\ call' = [call EXCEPT ![p] =
                                 Return(Logged([@ EXCEPT !.tx = TxCommitted],
                                               "commit", v), Nil)]
              ELSE /\ table' = table
                   /\ reverted' = reverted
                   /\ effects' = effects
                   /\ call' = [call EXCEPT ![p] =
                                 Return(Logged([Seen(@, out) EXCEPT
                                                   !.tx = TxClosed],
                                               "commit failed", v),
                                        "commit error")]
    /\ UNCHANGED <<disk, opts, tableExists, clock, locks, runner, calls, edits,
                   restarts, lastNil, txVars, healthVars>>

(***************************************************************************)
(* The environment: the process restarts (a new Runner, the old pool's     *)
(* sessions end), and the source files are changed between calls.          *)
(***************************************************************************)
Restart(p) ==
    /\ call[p].pc = "idle"
    /\ restarts < MaxRestarts
    /\ calls < MaxCalls
    /\ restarts' = restarts + 1
    /\ runner' = [runner EXCEPT ![p] = NewRunner]
    /\ locks' = [s \in Sessions |-> IF s[1] = p THEN 0 ELSE locks[s]]
    /\ call' = [call EXCEPT ![p] = IdleCall]
    /\ UNCHANGED <<disk, opts, tableExists, table, effects, clock, calls,
                   edits, lastNil, reverted, txVars, healthVars>>

\* The files that are edited, and what an edit leaves in a file's place.
EditSlots == {1, 3, 5}
EditContents == {Absent, File(<<"x">>), File(<<"y">>), File(<<"x", "\n">>)}

EditFile ==
    /\ AllIdle
    /\ edits < MaxEdits
    /\ calls < MaxCalls
    /\ edits' = edits + 1
    /\ \E s \in EditSlots, c \in EditContents :
          /\ c # disk[s]
          /\ disk' = [disk EXCEPT ![s] = c]
    /\ UNCHANGED <<opts, tableExists, table, effects, clock, locks, runner,
                   call, calls, restarts, lastNil, reverted, txVars,
                   healthVars>>

\* Another session of the database (an operator, another tool) deletes a
\* tracking row while a revert is between its read and its DELETE: the row
\* revertOne is about to delete, or another one.
ForeignDelete ==
    /\ \E p \in Procs : call[p].pc \in {"rbegin", "rexec", "rdelete"}
    /\ \E row \in table : table' = table \ {row}
    /\ UNCHANGED <<disk, opts, tableExists, effects, clock, locks, runner,
                   call, calls, edits, restarts, lastNil, reverted, txVars,
                   healthVars>>

(***************************************************************************)
(* Spec: one process, whose pool holds one connection and whose unlock     *)
(* statement runs without error, makes Up and Down calls; the sources      *)
(* change and the process restarts between calls.                          *)
(***************************************************************************)
Engine == "p1"
OneConn == {1}

Next ==
    \/ CallUp(Engine)
    \/ CallDown(Engine)
    \/ AcquireLock(Engine, OneConn)
    \/ EnsureTable(Engine)
    \/ LoadStep(Engine)
    \/ ReadStep(Engine)
    \/ ApplyBegin(Engine)
    \/ ApplyExec(Engine)
    \/ ApplyCommit(Engine)
    \/ Record(Engine)
    \/ RevertBegin(Engine)
    \/ RevertExec(Engine)
    \/ RevertDelete(Engine)
    \/ RevertCommit(Engine)
    \/ ReleaseLock(Engine, OneConn, {TRUE})
    \/ Restart(Engine)
    \/ EditFile

Spec == Init /\ [][Next]_vars

(***************************************************************************)
(* SpecLock: two processes, each with a pool of two connections, make Up   *)
(* and Down calls on the same database with the same lock key; the unlock  *)
(* statement may fail; a process may restart between its calls.            *)
(***************************************************************************)
InitLock ==
    /\ Init
    /\ disk = BaseDisk
    /\ opts = OptFull

NextLock ==
    \/ \E p \in Procs : CallUp(p)
    \/ \E p \in Procs : CallDown(p)
    \/ \E p \in Procs : AcquireLock(p, Conns)
    \/ \E p \in Procs : EnsureTable(p)
    \/ \E p \in Procs : LoadStep(p)
    \/ \E p \in Procs : ReadStep(p)
    \/ \E p \in Procs : ApplyBegin(p)
    \/ \E p \in Procs : ApplyExec(p)
    \/ \E p \in Procs : ApplyCommit(p)
    \/ \E p \in Procs : Record(p)
    \/ \E p \in Procs : RevertBegin(p)
    \/ \E p \in Procs : RevertExec(p)
    \/ \E p \in Procs : RevertDelete(p)
    \/ \E p \in Procs : RevertCommit(p)
    \/ \E p \in Procs : ReleaseLock(p, Conns, BOOLEAN)
    \/ \E p \in Procs : Restart(p)

SpecLock == InitLock /\ [][NextLock]_vars

(***************************************************************************)
(* SpecStatus: one process makes Up and Status calls; the sources change   *)
(* and the process restarts between calls.  Status takes no lock.          *)
(***************************************************************************)
NextStatus ==
    \/ CallUp(Engine)
    \/ CallStatus(Engine)
    \/ AcquireLock(Engine, OneConn)
    \/ EnsureTable(Engine)
    \/ LoadStep(Engine)
    \/ ReadStep(Engine)
    \/ ApplyBegin(Engine)
    \/ ApplyExec(Engine)
    \/ ApplyCommit(Engine)
    \/ Record(Engine)
    \/ ReleaseLock(Engine, OneConn, {TRUE})
    \/ Restart(Engine)
    \/ EditFile

SpecStatus == Init /\ [][NextStatus]_vars

(***************************************************************************)
(* SpecRevert: one process makes Up and Down calls while another session   *)
(* of the database may delete tracking rows during a revert.               *)
(***************************************************************************)
InitRevert ==
    /\ Init
    /\ opts = OptFull
    /\ disk \in {BaseDisk, [BaseDisk EXCEPT ![2] = File(<<"\n">>)]}

NextRevert ==
    \/ CallUp(Engine)
    \/ CallDown(Engine)
    \/ AcquireLock(Engine, OneConn)
    \/ EnsureTable(Engine)
    \/ LoadStep(Engine)
    \/ ReadStep(Engine)
    \/ ApplyBegin(Engine)
    \/ ApplyExec(Engine)
    \/ ApplyCommit(Engine)
    \/ Record(Engine)
    \/ RevertBegin(Engine)
    \/ RevertExec(Engine)
    \/ RevertDelete(Engine)
    \/ RevertCommit(Engine)
    \/ ReleaseLock(Engine, OneConn, {TRUE})
    \/ ForeignDelete

SpecRevert == InitRevert /\ [][NextRevert]_vars

(***************************************************************************)
(* What a call did, read from its log.                                     *)
(***************************************************************************)
HasEv(log, name) == \E i \in 1 .. Len(log) : log[i].ev = name

EvVersions(log, name) ==
    {log[i].v : i \in {j \in 1 .. Len(log) : log[j].ev = name}}

Returned(p, op) == call[p].op = op /\ call[p].pc = "idle"

\* A returned error: neither nil nor a panic.
IsError(r) == r \notin {None, Nil, PanicDrift}

RowsOf(v) == {x \in table : x.version = v}

(***************************************************************************)
(* C1.  Fail-fast apply: when the k-th pending script of an Up call fails  *)
(* to execute, then at return every pending script before it has a         *)
(* success=true record, the k-th has a success=false record, no later      *)
(* script was executed or has any record, and Up returns a non-nil error.  *)
(***************************************************************************)
C1_FailFast ==
    \A p \in Procs :
        (Returned(p, "Up") /\ HasEv(call[p].log, "exec failed")) =>
            LET c == call[p]
                k == Head(c.pending).Version
                after == {c.pending[i].Version : i \in 2 .. Len(c.pending)}
            IN  /\ IsError(c.ret)
                /\ \A v \in EvVersions(c.log, "exec") :
                      \E x \in RowsOf(v) : x.success
                /\ \E x \in RowsOf(k) : ~x.success
                /\ after \cap EvVersions(c.log, "exec") = {}
                /\ \A v \in after : RowsOf(v) = {}

(***************************************************************************)
(* C2.  Up is idempotent: an Up call made after an Up that returned nil,   *)
(* with the registry and the table as that Up left them, executes no       *)
(* script, writes no record and returns nil.                               *)
(***************************************************************************)
C2_Idempotent ==
    \A p \in Procs :
        LET c == call[p]
        IN  (/\ c.op = "Up"
             /\ c.prior.valid
             /\ HasEv(c.log, "read")
             /\ runner[p].migrations = c.prior.migrations
             /\ table = c.prior.table) =>
                /\ \A e \in {"exec", "exec failed", "record ok",
                             "record failed", "record error"} :
                      ~HasEv(c.log, e)
                /\ c.pc = "unlock" => c.err = Nil
                /\ c.pc = "idle" => c.ret = Nil

\* Drift: a success=true row whose stored checksum differs from the
\* checksum of a loaded Up script of the same version.
Drift(migrations, tbl) ==
    \E i \in 1 .. Len(migrations), x \in tbl :
        /\ migrations[i].Dir = "up"
        /\ x.version = migrations[i].Version
        /\ x.success
        /\ x.checksum # migrations[i].Checksum

\* The step in which Up (or Down) of p reads the tracking rows.
ReadsRows(p, op) ==
    /\ call[p].op = op
    /\ call[p].pc = "read"
    /\ ~HasEv(call[p].log, "read")
    /\ HasEv(call'[p].log, "read")

(***************************************************************************)
(* C3.  Drift aborts Up: when Up reads the rows and finds drift, it        *)
(* returns a non-nil error (the drift is handed back as an error value),   *)
(* executes no script and writes no row.                                   *)
(***************************************************************************)
C3_DriftReturnsError ==
    [][\A p \in Procs :
          (ReadsRows(p, "Up") /\ Drift(runner[p].migrations, table)) =>
              /\ call'[p].pc = "unlock"
              /\ IsError(call'[p].err)
              /\ table' = table /\ effects' = effects]_vars

\* The Up script of an applied version, as the sources hold it now, has a
\* text (leading and trailing white space apart) other than the one whose
\* checksum the success=true row stores.
EditedApplied ==
    \E s \in Slots, x \in table :
        LET m == parseFileName(SlotName(s))
        IN  /\ \E i \in 1 .. Len(Roots(opts)) : Roots(opts)[i] = SlotRoot(s)
            /\ disk[s].kind = "file"
            /\ m.ok /\ m.Dir = "up"
            /\ x.version = m.Version /\ x.success
            /\ x.checksum # checksum(TrimSpace(disk[s].body))

(***************************************************************************)
(* C4 (as claimed).  Drift is detected on the next run: once the Up script *)
(* of an applied version has been changed, an Up call that reads the rows, *)
(* on the same Runner or on a new one, reports drift, and neither re-runs  *)
(* the script nor returns nil.                                             *)
(***************************************************************************)
C4_DriftOnAnyRunner ==
    [][\A p \in Procs :
          (ReadsRows(p, "Up") /\ EditedApplied) =>
              /\ call'[p].pc = "unlock"
              /\ call'[p].err = PanicDrift]_vars

(***************************************************************************)
(* C4 (amended).  Once the Up script of an applied version has been        *)
(* changed, an Up call that loads the sources itself (a new Runner, or one *)
(* that never loaded) and reads the rows stops at the drift check with the *)
(* checksum-mismatch panic: it executes no script, writes no row and does  *)
(* not return nil.  A Runner that is already loaded compares the rows with *)
(* the registry it cached, whatever the sources hold now.                  *)
(***************************************************************************)
C4_DriftOnFreshLoad ==
    [][\A p \in Procs :
          (ReadsRows(p, "Up") /\ EditedApplied) =>
              IF HasEv(call[p].log, "load")
              THEN /\ call'[p].pc = "unlock"
                   /\ call'[p].err = PanicDrift
                   /\ table' = table /\ effects' = effects
              ELSE call'[p].err = PanicDrift
                       <=> Drift(runner[p].migrations, table)]_vars

\* An Up call on a freshly loaded Runner ended in the drift panic after a
\* script was edited.
C4_Witness ==
    \E p \in Procs :
        /\ Returned(p, "Up")
        /\ call[p].ret = PanicDrift
        /\ HasEv(call[p].log, "load")
        /\ edits > 0
        /\ EditedApplied

\* p is inside the protected block of Up or Down.
BlockSteps ==
    {"ensure", "load", "read", "begin", "exec", "commit", "record",
     "rbegin", "rexec", "rdelete", "rcommit"}

InBlock(p) == call[p].op \in {"Up", "Down"} /\ call[p].pc \in BlockSteps

C6_LockFailure ==
    [][\A p \in Procs :
          (call[p].pc = "lock" /\ call'[p] # call[p] /\ locks' = locks) =>
              /\ call'[p].pc = "idle"
              /\ IsError(call'[p].ret)
              /\ call'[p].log = <<>>
              /\ UNCHANGED <<tableExists, table, effects, runner, txVars,
                             healthVars>>]_vars

\* An Up call on a database without tracking table returned the lock error.
C6_Witness ==
    \E p \in Procs :
        /\ Returned(p, "Up")
        /\ call[p].ret = "lock error"
        /\ ~tableExists
        /\ ~runner[p].loaded

(***************************************************************************)
(* C7.  Down with AllowDangerousDown=false returns the same fixed          *)
(* "disabled" error in every state, without acquiring the lock, creating   *)
(* the tracking table, loading the registry, executing SQL or writing a    *)
(* row.                                                                    *)
(***************************************************************************)
C7_DownDisabled ==
    [][\A p \in Procs :
          (/\ call[p].pc = "idle"
           /\ calls' = calls + 1
           /\ call'[p].op = "Down"
           /\ ~opts.AllowDangerousDown) =>
              /\ call'[p].pc = "idle"
              /\ call'[p].ret = ErrDisabled
              /\ call'[p].log = <<>>
              /\ UNCHANGED <<locks, tableExists, table, effects, runner, clock,
                             txVars, healthVars>>]_vars

\* Down was refused on a database that holds applied migrations.
C7_Witness ==
    \E p \in Procs :
        /\ Returned(p, "Down")
        /\ call[p].ret = ErrDisabled
        /\ \E x \in table : x.success

\* The connection on which the call of p took the lock.
LockConn(c) ==
    c.log[CHOOSE i \in 1 .. Len(c.log) : c.log[i].ev = "lock"].v

(***************************************************************************)
(* C8.  When Down is enabled and the latest applied version has no Down    *)
(* script in the registry, Down returns the "no down migration" error, no  *)
(* transaction is started, no tracking row is deleted or changed, and the  *)
(* lock is released.                                                       *)
(***************************************************************************)
C8_NoDownScript ==
    [][\A p \in Procs :
          (/\ call[p].op = "Down"
           /\ call[p].pc = "unlock"
           /\ call[p].err = ErrNoDown
           /\ call'[p].pc = "idle") =>
              /\ call'[p].ret = ErrNoDown
              /\ \A e \in {"begin", "exec down", "delete", "commit"} :
                    ~HasEv(call[p].log, e)
              /\ table' = table
              /\ locks'[<<p, LockConn(call[p])>>]
                    = locks[<<p, LockConn(call[p])>>] - 1]_vars

SuccessRows(tbl) == {x \in tbl : x.success}

\* The greatest version among the success=true rows.
MaxVersion(tbl) ==
    CHOOSE v \in {x.version : x \in SuccessRows(tbl)} :
        \A x \in SuccessRows(tbl) : x.version <= v

\* The version of the success=true row applied last: greatest applied_at,
\* and greatest version among those.
LatestVersion(tbl) ==
    (CHOOSE x \in SuccessRows(tbl) :
        \A y \in SuccessRows(tbl) \ {x} :
            \/ y.applied_at < x.applied_at
            \/ y.applied_at = x.applied_at /\ y.version < x.version).version

(***************************************************************************)
(* C9 (as claimed).  Down reverts the success=true record with the         *)
(* greatest version: in every table state reachable by Up and Down calls,  *)
(* the version Down selects is the maximum version among success=true rows.*)
(***************************************************************************)
C9_DownSelectsMaxVersion ==
    [][\A p \in Procs :
          (ReadsRows(p, "Down") /\ SuccessRows(table) # {}) =>
              call'[p].sel = MaxVersion(table)]_vars

(***************************************************************************)
(* C9 (amended).  Down selects the success=true record applied most        *)
(* recently (greatest applied_at, then greatest version) and looks up the  *)
(* Down script of that version; this is the greatest version only when     *)
(* no lower version was applied after a higher one.  Without a             *)
(* success=true row Down selects nothing and returns nil.                  *)
(***************************************************************************)
C9_DownSelectsLatest ==
    [][\A p \in Procs :
          ReadsRows(p, "Down") =>
              IF SuccessRows(table) = {}
              THEN /\ call'[p].sel = 0
                   /\ call'[p].pc = "unlock"
                   /\ call'[p].err = Nil
              ELSE /\ call'[p].sel = LatestVersion(table)
                   /\ call'[p].pc = "rbegin" =>
                         /\ Head(call'[p].pending).Version = call'[p].sel
                         /\ Head(call'[p].pending).Dir = "down"
                   /\ call'[p].pc # "rbegin" => call'[p].err = ErrNoDown]_vars

\* Down reverted a version while a greater version stays applied.
C9_Witness ==
    \E p \in Procs :
        /\ Returned(p, "Down")
        /\ call[p].ret = Nil
        /\ HasEv(call[p].log, "commit")
        /\ \E x \in SuccessRows(table) : x.version > call[p].sel

\* Two files of the configured sources parse to the same
\* (version, direction).
DuplicateInSources ==
    \E s, t \in Slots :
        LET m == parseFileName(SlotName(s))
            n == parseFileName(SlotName(t))
        IN  /\ s # t
            /\ \A u \in {s, t} :
                  /\ \E i \in 1 .. Len(Roots(opts)) :
                        Roots(opts)[i] = SlotRoot(u)
                  /\ disk[u].kind \in {"file", "unreadable"}
            /\ m.ok /\ n.ok
            /\ m.Version = n.Version /\ m.Dir = n.Dir

Result(c) == IF c.pc = "idle" THEN c.ret ELSE c.err

\* An Up call of p whose load failed on a duplicate.
DuplicateFailedUp(p) ==
    /\ call[p].op = "Up"
    /\ HasEv(call[p].log, "load failed")
    /\ Result(call[p]) = "duplicate migration"

StatusStep(p) ==
    /\ call[p].op = "Status"
    /\ call[p].pc # "idle"
    /\ call'[p] # call[p]

(***************************************************************************)
(* C12 (as claimed).  Status never mutates state: the rows of the tracking *)
(* table and every column of every row are the same before and after a     *)
(* Status call, no migration SQL is executed, and Status does not create   *)
(* the table when it is absent.                                            *)
(***************************************************************************)
C12_StatusChangesNothing ==
    [][\A p \in Procs :
          StatusStep(p) =>
              /\ table' = table
              /\ effects' = effects
              /\ tableExists' = tableExists]_vars

(***************************************************************************)
(* C12 (amended).  Status never changes a tracking row and executes no     *)
(* migration SQL: rows and columns are the same before and after the call, *)
(* and it takes no lock.  When the tracking table is absent, Status        *)
(* creates it, empty, in its first step (ensureTable).                     *)
(***************************************************************************)
C12_StatusChangesNoRow ==
    [][\A p \in Procs :
          StatusStep(p) =>
              /\ table' = table
              /\ effects' = effects
              /\ locks' = locks
              /\ tableExists' # tableExists =>
                    /\ call[p].pc = "ensure"
                    /\ tableExists'
                    /\ table' = {}]_vars

\* Status returned its report over a table that holds rows.
C12_Witness ==
    \E p \in Procs :
        /\ Returned(p, "Status")
        /\ call[p].ret = Nil
        /\ Len(call[p].applied) > 0
        /\ call[p].applied = loadApplied(table)

(***************************************************************************)
(* C13.  The tracking table is an accurate record of progress: in every    *)
(* state reached after an Up call returns (also when writing a record      *)
(* fails or the context is cancelled), the SQL effects of version v's Up   *)
(* script are committed if and only if row v exists with success=true,     *)
(* the record being written in the transaction of the script.              *)
(***************************************************************************)
C13_AccurateRecord ==
    \A p \in Procs :
        Returned(p, "Up") =>
            \A i \in 1 .. Len(runner[p].migrations) :
                LET v == runner[p].migrations[i].Version
                IN  v \in effects <=> \E x \in RowsOf(v) : x.success

\* The statements of applyOne that ended in failure.
FailureEvents == {"exec failed", "commit failed", "record failed",
                  "record error"}

(***************************************************************************)
(* C14.  Up returns nil only if, at return, every Up script in the         *)
(* registry has a success=true record; a failure of BeginTx, of the        *)
(* script, of the commit or of persisting the success record makes Up      *)
(* return a non-nil error.                                                 *)
(***************************************************************************)
C14_NilOnlyWhenAllApplied ==
    \A p \in Procs :
        Returned(p, "Up") =>
            /\ call[p].ret = Nil =>
                  \A i \in 1 .. Len(runner[p].migrations) :
                      runner[p].migrations[i].Dir = "up" =>
                          \E x \in RowsOf(runner[p].migrations[i].Version) :
                              x.success
            /\ (\E e \in FailureEvents : HasEv(call[p].log, e)) =>
                  call[p].ret # Nil

\* Up applied two scripts and returned nil.
C14_Witness ==
    \E p \in Procs :
        /\ Returned(p, "Up")
        /\ call[p].ret = Nil
        /\ Cardinality(EvVersions(call[p].log, "record ok")) >= 2

\* The last statement the call logged.
LastEv(c) == c.log[Len(c.log)].ev

(***************************************************************************)
(* C15.  A failed version is retried only by a new Up call: within one Up  *)
(* call nothing is executed after a script failed; a version whose only    *)
(* record has success=false is in the pending set of the next Up call,     *)
(* without a drift error even if the loaded checksum differs from the      *)
(* failed record's; and a successful retry leaves a single row for the     *)
(* version, with success=true and the checksum of the loaded script.       *)
(***************************************************************************)
C15_FailedVersionRetried ==
    [][\A p \in Procs :
          /\ (ReadsRows(p, "Up") /\ ~Drift(runner[p].migrations, table)) =>
                /\ call'[p].err # PanicDrift
                /\ \A i \in 1 .. Len(runner[p].migrations) :
                      LET m == runner[p].migrations[i]
                      IN  (/\ m.Dir = "up"
                           /\ RowsOf(m.Version) # {}
                           /\ \A x \in RowsOf(m.Version) : ~x.success) =>
                              \E k \in 1 .. Len(call'[p].pending) :
                                  call'[p].pending[k] = m
          /\ (/\ call[p].op = "Up" /\ call[p].pc = "record" /\ call[p].ok
              /\ call'[p].log # call[p].log
              /\ LastEv(call'[p]) = "record ok") =>
                LET m == Head(call[p].pending)
                IN  \E x \in table' :
                        /\ {y \in table' : y.version = m.Version} = {x}
                        /\ x.success
                        /\ x.checksum = m.Checksum
          /\ (/\ call[p].op = "Up"
              /\ HasEv(call[p].log, "exec failed")
              /\ call'[p].log # call[p].log
              /\ call'[p].log # <<>>) =>
                LastEv(call'[p]) \in {"record failed", "record error",
                                      "unlock"}]_vars

\* Up re-executed a version whose row it had read as failed, with another
\* checksum, and the row now has success=true and the new checksum.
C15_Witness ==
    \E p \in Procs :
        /\ Returned(p, "Up")
        /\ \E i \in 1 .. Len(call[p].applied), x \in table :
              /\ ~call[p].applied[i].success
              /\ x.version = call[p].applied[i].version
              /\ x.success
              /\ x.checksum # call[p].applied[i].checksum
              /\ x.version \in EvVersions(call[p].log, "record ok")

OneRowPerVersion(tbl) ==
    \A x, y \in tbl : x.version = y.version => x = y

\* The step in which a call of p writes a tracking record.
WritesRecord(p) ==
    /\ call[p].pc = "record"
    /\ call'[p].log # call[p].log
    /\ LastEv(call'[p]) \in {"record ok", "record failed"}

(***************************************************************************)
(* C16.  At most one tracking row exists per version in every state        *)
(* reachable by Up and Down calls (repeated failures and retries of a      *)
(* version included); a repeated attempt overwrites name, checksum,        *)
(* applied_at, exec_ms and success of the existing row and adds no row.    *)
(***************************************************************************)
C16_OneRowPerVersion ==
    [][/\ OneRowPerVersion(table')
       /\ \A p \in Procs :
             WritesRecord(p) =>
                 LET m == Head(call[p].pending)
                     others == {x \in table : x.version # m.Version}
                 IN  /\ {x \in table' : x.version # m.Version} = others
                     /\ Cardinality(table') = Cardinality(others) + 1
                     /\ \E x \in table' :
                           /\ x.version = m.Version
                           /\ x.name = m.Name
                           /\ x.checksum = m.Checksum
                           /\ x.applied_at = clock'
                           /\ x.exec_ms = call[p].ms
                           /\ x.success = call[p].ok]_vars

\* A second failed attempt overwrote the failed row of a version.
C16_Witness ==
    \E p \in Procs, x \in table :
        /\ Returned(p, "Up")
        /\ ~x.success
        /\ HasEv(call[p].log, "record failed")
        /\ \E i \in 1 .. Len(call[p].applied) :
              /\ call[p].applied[i].version = x.version
              /\ ~call[p].applied[i].success
              /\ call[p].applied[i].applied_at < x.applied_at

\* The versions of the rows a call read.
AppliedVersions(c) == {c.applied[i].version : i \in 1 .. Len(c.applied)}

(***************************************************************************)
(* C17.  Revert then re-apply: after a successful Down of version v the    *)
(* row for v no longer exists, v is in the pending set of the next Up,     *)
(* and that Up, when it returns nil, has re-executed v's Up script and     *)
(* recorded success=true for v; Down itself does not check drift.          *)
(***************************************************************************)
C17_RevertThenReapply ==
    [][\A p \in Procs :
          /\ (call[p].op = "Down" /\ table' # table) =>
                /\ table' = {x \in table : x.version # call[p].sel}
                /\ call[p].sel \in reverted'
          /\ ReadsRows(p, "Down") => call'[p].err # PanicDrift
          /\ (ReadsRows(p, "Up") /\ ~Drift(runner[p].migrations, table)) =>
                \A i \in 1 .. Len(runner[p].migrations) :
                    LET m == runner[p].migrations[i]
                    IN  (/\ m.Dir = "up"
                         /\ m.Version \in reverted
                         /\ RowsOf(m.Version) = {}) =>
                            \E k \in 1 .. Len(call'[p].pending) :
                                call'[p].pending[k] = m
          /\ (/\ call[p].op = "Up" /\ call[p].pc = "unlock"
              /\ call[p].err = Nil /\ call'[p].pc = "idle") =>
                \A i \in 1 .. Len(runner[p].migrations) :
                    LET m == runner[p].migrations[i]
                    IN  (/\ m.Dir = "up"
                         /\ m.Version \in reverted
                         /\ m.Version \notin AppliedVersions(call[p])) =>
                            /\ m.Version \in EvVersions(call[p].log, "exec")
                            /\ \E x \in RowsOf(m.Version) : x.success]_vars

\* Up re-applied a version that Down had reverted.
C17_Witness ==
    \E p \in Procs, v \in reverted :
        /\ Returned(p, "Up")
        /\ call[p].ret = Nil
        /\ v \notin AppliedVersions(call[p])
        /\ v \in EvVersions(call[p].log, "record ok")
        /\ \E x \in RowsOf(v) : x.success

\* The positions of the log at which a transaction of applyOne begins.
Begins(log) == {i \in 1 .. Len(log) : log[i].ev = "begin"}

(***************************************************************************)
(* C18.  Within one Up call the pending scripts are executed in strictly   *)
(* ascending version order, one transaction per script and never in        *)
(* parallel: a script's transaction begins only after the previous pending *)
(* script's transaction committed and its success=true record was          *)
(* persisted, so the applied_at values of the records written by one Up    *)
(* are non-decreasing in version.                                          *)
(***************************************************************************)
C18_AscendingOrder ==
    \A p \in Procs :
        call[p].op = "Up" =>
            LET log == call[p].log
            IN  /\ \A i, j \in Begins(log) : i < j => log[i].v < log[j].v
                /\ \A j \in Begins(log) :
                      (\E i \in Begins(log) : i < j) =>
                          /\ log[j - 1].ev = "record ok"
                          /\ log[j - 2].ev = "commit"
                          /\ log[j - 1].v < log[j].v
                /\ call[p].pc \in {"idle", "unlock"} =>
                      \A x, y \in table :
                          (/\ x.version < y.version
                           /\ {x.version, y.version}
                                 \subseteq EvVersions(log, "record ok")) =>
                              x.applied_at <= y.applied_at

(***************************************************************************)
(* C19.  The advisory lock is released after the protected block on every  *)
(* exit path: after any Up or Down call that acquired the lock returns     *)
(* (nil, error, panic in the block, expired context), no database session  *)
(* of the calling process still holds the lock, also when the pool holds   *)
(* more than one connection.                                               *)
(***************************************************************************)
C19_LockReleased ==
    \A p \in Procs :
        (/\ call[p].pc = "idle"
         /\ call[p].op \in {"Up", "Down"}
         /\ HasEv(call[p].log, "lock")) =>
            \A c \in Conns : locks[<<p, c>>] = 0

\* The position of the first event of that name in the log (0: none).
FirstEv(log, name) ==
    IF HasEv(log, name)
    THEN CHOOSE i \in 1 .. Len(log) :
             /\ log[i].ev = name
             /\ \A j \in 1 .. i - 1 : log[j].ev # name
    ELSE 0

(***************************************************************************)
(* C20.  Revert is atomic and ordered: Down executes the Down SQL first    *)
(* (skipped when empty) and deletes the tracking row second, inside one    *)
(* transaction that is committed only after both succeeded; after any Down *)
(* call returns, either the Down SQL's effects and the row deletion are    *)
(* both committed, or neither is.                                          *)
(***************************************************************************)
C20_RevertAtomic ==
    [][\A p \in Procs :
          (call[p].op = "Down" /\ call[p].pc # "idle"
              /\ call'[p] # call[p]) =>
              LET log == call'[p].log
                  committed == /\ log # call[p].log
                               /\ LastEv(call'[p]) = "commit"
                  m == Head(call[p].pending)
              IN  /\ HasEv(log, "delete") =>
                        /\ FirstEv(log, "begin") < FirstEv(log, "delete")
                        /\ m.SQL # <<>> =>
                              /\ HasEv(log, "exec down")
                              /\ FirstEv(log, "begin")
                                    < FirstEv(log, "exec down")
                              /\ FirstEv(log, "exec down")
                                    < FirstEv(log, "delete")
                  /\ HasEv(log, "exec down") => m.SQL # <<>>
                  /\ IF committed
                     THEN /\ HasEv(call[p].log, "delete")
                          /\ table' = {x \in table : x.version # m.Version}
                          /\ table' # table
                          /\ effects' = IF m.SQL # <<>>
                                        THEN effects \ {m.Version}
                                        ELSE effects
                     ELSE /\ table' = table
                          /\ effects' = effects]_vars

\* Down returned nil with the Down SQL's effects and the deletion committed.
C20_Witness ==
    \E p \in Procs :
        /\ Returned(p, "Down")
        /\ call[p].ret = Nil
        /\ HasEv(call[p].log, "exec down")
        /\ call[p].sel \notin effects
        /\ RowsOf(call[p].sel) = {}

(***************************************************************************)
(* C21.  If the DELETE of the tracking row during Down affects a number of *)
(* rows other than exactly one (the row was already removed), the revert   *)
(* transaction is rolled back, so the already executed Down SQL has no     *)
(* committed effect, and Down returns an integrity error: the DELETE step  *)
(* never goes on to the commit, the call ends with the "no row deleted"    *)
(* error, and no step of that call changes the schema or the table.        *)
(***************************************************************************)
C21_DeleteCountChecked ==
    [][\A p \in Procs :
          (call[p].op = "Down" /\ call[p].pc # "idle"
              /\ call'[p] # call[p]) =>
              LET v == Head(call[p].pending).Version
                  gone == /\ call[p].pc = "rdelete"
                          /\ RowsAffected(table, v) # 1
              IN  /\ gone =>
                        /\ call'[p].pc = "unlock"
                        /\ \/ LastEv(call'[p]) = "delete none"
                           \/ LastEv(call'[p]) = "delete failed"
                  /\ HasEv(call'[p].log, "delete none") =>
                        /\ ~HasEv(call'[p].log, "commit")
                        /\ ~HasEv(call'[p].log, "delete")
                        /\ call'[p].err = ErrNoRowDeleted
                        /\ call'[p].pc = "idle" =>
                              call'[p].ret = ErrNoRowDeleted
                        /\ effects' = effects
                        /\ table' = table]_vars

\* Down ran the Down SQL, found no row to delete and returned the error;
\* the effects of the version's Up script are still in the schema.
C21_Witness ==
    \E p \in Procs :
        /\ Returned(p, "Down")
        /\ call[p].ret = ErrNoRowDeleted
        /\ HasEv(call[p].log, "exec down")
        /\ call[p].sel \in effects
        /\ RowsOf(call[p].sel) = {}

\* The rows a call read, as a set.
RowsRead(c) == {c.applied[i] : i \in 1 .. Len(c.applied)}

AfterEnsure == {"load", "cached", "load failed"}
EngineEvents ==
    {"begin", "exec", "exec failed", "commit", "commit failed", "record ok",
     "record failed", "record error", "exec down", "exec down failed",
     "delete", "delete failed", "delete none"}

\* Every event of the set evs comes after the first event named first.
Follows(log, first, evs) ==
    \A i \in 1 .. Len(log) :
        log[i].ev \in evs =>
            /\ HasEv(log, first)
            /\ FirstEv(log, first) < i

\* The steps of the call c so far are in the order lock, ensure table,
\* load, read, engine, unlock.
StepOrder(c) ==
    /\ Follows(c.log, "lock", {"ensure"} \cup AfterEnsure)
    /\ Follows(c.log, "ensure", AfterEnsure)
    /\ \/ Follows(c.log, "load", {"read"})
       \/ Follows(c.log, "cached", {"read"})
    /\ Follows(c.log, "read", EngineEvents)
    /\ \A i \in 1 .. Len(c.log) : c.log[i].ev = "unlock" => i = Len(c.log)
    /\ c.pc \in {"ensure", "load", "read"} => HasEv(c.log, "lock")

(***************************************************************************)
(* C23.  Every Up, every enabled Down and every Status call follows the    *)
(* same step order: the advisory lock is acquired first, then the tracking *)
(* table is ensured, then the registry is loaded (or taken from the        *)
(* cache), then the applied rows are read, then the engine executes, and   *)
(* the lock is released last; in particular Status reads the table only    *)
(* while holding the lock.                                                 *)
(***************************************************************************)
C23_SameStepOrder ==
    \A p \in Procs :
        /\ StepOrder(call[p])
        /\ call[p].pc \in {"ensure", "load", "read"} =>
              \E c \in Conns : locks[<<p, c>>] > 0

\* How often x occurs in the sequence s.
Count(s, x) == Cardinality({i \in 1 .. Len(s) : s[i] = x})

\* The Up scripts Status flags with "*": those whose version is the version
\* of a script in next.
Marked(migrations, next) ==
    SelectSeq(migrations,
              LAMBDA m : /\ m.Dir = "up"
                         /\ \E i \in 1 .. Len(next) :
                               next[i].Version = m.Version)

\* The registry entries that are Up scripts whose version has no
\* success=true row in tbl.
Unapplied(migrations, tbl) ==
    SelectSeq(migrations,
              LAMBDA m : /\ m.Dir = "up"
                         /\ \A x \in tbl : x.success => x.version # m.Version)

(***************************************************************************)
(* C24.  The pending set computed by Up, and the set of Up scripts that    *)
(* Status marks as pending, is exactly the set of Up scripts in the        *)
(* registry whose version has no success=true row (a version with only a   *)
(* success=false row is pending, a Down script is never pending), listed   *)
(* in ascending version order.                                             *)
(***************************************************************************)
C24_PendingSet ==
    [][\A p \in Procs :
          ((ReadsRows(p, "Up") \/ ReadsRows(p, "Status"))
              /\ ~Drift(runner[p].migrations, table)) =>
              LET next == call'[p].pending
                  want == Unapplied(runner[p].migrations, table)
              IN  /\ \A i \in 1 .. Len(next) :
                         /\ next[i].Dir = "up"
                         /\ Count(next, next[i]) = Count(want, next[i])
                  /\ \A i \in 1 .. Len(want) :
                         Count(next, want[i]) = Count(want, want[i])
                  /\ \A i \in 1 .. Len(next) - 1 :
                         next[i].Version <= next[i + 1].Version
                  /\ call[p].op = "Status" =>
                         Marked(runner[p].migrations, next) = want]_vars

\* Status reported with one version applied, one version pending after a
\* failed attempt, and a Down script in the registry.
C24_Witness ==
    \E p \in Procs :
        /\ Returned(p, "Status")
        /\ call[p].ret = Nil
        /\ Len(call[p].pending) = 1
        /\ \E x \in table :
              ~x.success /\ x.version = call[p].pending[1].Version
        /\ \E x \in table : x.success
        /\ \E i \in 1 .. Len(runner[p].migrations) :
              runner[p].migrations[i].Dir = "down"

\* The step in which the call of p runs loadMigrations.
LoadsRegistry(p) == call[p].pc = "load" /\ call'[p] # call[p]

\* That step read the sources (it did not return at `if r.loaded`).
ReadsSources(p) ==
    LoadsRegistry(p) /\ LastEv(call'[p]) \in {"load", "load failed"}

(***************************************************************************)
(* C25.  The registry is loaded at most once per Runner and is immutable   *)
(* afterwards: the sources are read by at most one call, and after the     *)
(* first load attempt the content and order of the registry never change.  *)
(* A Runner that is loaded or holds an entry has been through a load       *)
(* attempt: no later step reads the sources or changes the registry.       *)
(***************************************************************************)
C25_LoadedAtMostOnce ==
    [][\A p \in Procs :
          (restarts' = restarts
              /\ (runner[p].loaded \/ runner[p].migrations # <<>>)) =>
              /\ runner'[p] = runner[p]
              /\ ~ReadsSources(p)]_vars

\* The positions of a call between BeginTx and the end of the transaction.
InTx == {"exec", "commit", "rexec", "rdelete", "rcommit"}

\* The events after which the engine has called tx.Rollback().
RollbackEvents ==
    {"exec failed", "exec down failed", "delete failed", "delete none"}

Deduplicated(migrations) ==
    \A i, j \in 1 .. Len(migrations) :
        MigKey(migrations[i]) = MigKey(migrations[j]) => i = j

(***************************************************************************)
(* C27.  The registry never holds two entries with the same (version,      *)
(* direction), in every reachable state of a Runner: in particular, when a *)
(* load attempt fails partway and a later call on the same Runner loads    *)
(* successfully, no script appears twice in the registry and no version is *)
(* executed twice by one Up call.                                          *)
(***************************************************************************)
C27_RegistryDeduplicated ==
    \A p \in Procs :
        /\ Deduplicated(runner[p].migrations)
        /\ call[p].op = "Up" =>
              \A i, j \in 1 .. Len(call[p].log) :
                  (/\ call[p].log[i].ev = "exec"
                   /\ call[p].log[j].ev = "exec"
                   /\ call[p].log[i].v = call[p].log[j].v) => i = j

(***************************************************************************)
(* C28.  Status always completes by returning a report or an error to its  *)
(* caller, in every state of the tracking table and registry: when a       *)
(* success=true row's checksum differs from the loaded Up script (drift),  *)
(* Status returns to the caller rather than crashing the process.          *)
(***************************************************************************)
C28_StatusReturns ==
    \A p \in Procs :
        (call[p].op = "Status" /\ call[p].pc = "idle") =>
            /\ call[p].ret # PanicDrift
            /\ call[p].ret = Nil \/ IsError(call[p].ret)

(***************************************************************************)
(* txpostgres.Manager.WithinTx.  Goroutines call WithinTx on one pool; fn  *)
(* may write through the transaction and returns nil or an error, or       *)
(* panics.                                                                 *)
(***************************************************************************)
\* How a statement on the pool or the connection ends.
StmtOutcomes == {"ok", "error"}

\* What fn does: returns nil, returns an error, panics.
FnResults == {Nil, "fn error", "panic"}

MigratorIdle == UNCHANGED <<migratorVars, healthVars>>

WithinTx(g) ==
    /\ wtx[g].pc = "idle"
    /\ txcalls < MaxTxCalls
    /\ txcalls' = txcalls + 1
    /\ wtx' = [wtx EXCEPT ![g] =
                 [IdleTx EXCEPT !.pc = "acquire", !.token = txcalls + 1]]
    /\ UNCHANGED <<idle, store>>
    /\ MigratorIdle

\* conn, err := m.Pool.Acquire(ctx); if err != nil { return err }
Acquire(g) ==
    /\ wtx[g].pc = "acquire"
    /\ \E out \in StmtOutcomes :
          IF out = "ok"
          THEN \E c \in idle :
                  /\ idle' = idle \ {c}
                  /\ wtx' = [wtx EXCEPT ![g].pc = "begin", ![g].conn = c]
          ELSE /\ idle' = idle
               /\ wtx' = [wtx EXCEPT ![g].pc = "idle",
                                     ![g].ret = "acquire error"]
    /\ UNCHANGED <<store, txcalls>>
    /\ MigratorIdle

\* tx, err := conn.Begin(ctx); if err != nil { return err }: the deferred
\* Release runs.
Begin(g) ==
    /\ wtx[g].pc = "begin"
    /\ \E out \in StmtOutcomes :
          wtx' = [wtx EXCEPT ![g] =
                    IF out = "ok" THEN [@ EXCEPT !.pc = "fn", !.tx = TxOpen]
                    ELSE [@ EXCEPT !.pc = "release", !.ret = "begin error"]]
    /\ UNCHANGED <<idle, store, txcalls>>
    /\ MigratorIdle

\* fn that is followed by the Commit whatever it returned.
FnAlwaysCommitted(g) ==
    /\ wtx[g].pc = "fn"
    /\ \E res \in FnResults, w \in BOOLEAN :
          wtx' = [wtx EXCEPT ![g] =
                    [@ EXCEPT !.fnCalls = @ + 1, !.fnRes = res, !.wrote = w,
                              !.pc = "commit"]]
    /\ UNCHANGED <<idle, store, txcalls>>
    /\ MigratorIdle

\* if err := fn(txCtx); err != nil { return err }
Fn(g) ==
    /\ wtx[g].pc = "fn"
    /\ \E res \in FnResults, w \in BOOLEAN :
          wtx' = [wtx EXCEPT ![g] =
                    [@ EXCEPT !.fnCalls = @ + 1, !.fnRes = res, !.wrote = w,
                              !.pc = IF res = Nil THEN "commit"
                                     ELSE "rollback",
                              !.ret = IF res = Nil THEN @ ELSE res]]
    /\ UNCHANGED <<idle, store, txcalls>>
    /\ MigratorIdle

\* return tx.Commit(ctx): a Commit that fails leaves nothing committed and
\* the transaction closed.
Commit(g) ==
    /\ wtx[g].pc = "commit"
    /\ \E out \in StmtOutcomes :
          /\ store' = IF out = "ok" /\ wtx[g].wrote
                      THEN store \cup {wtx[g].token}
                      ELSE store
          /\ wtx' = [wtx EXCEPT ![g] =
                       [@ EXCEPT !.commits = @ + 1, !.pc = "rollback",
                                 !.tx = IF out = "ok" THEN TxCommitted
                                        ELSE TxClosed,
                                 !.ret = IF out = "ok" THEN Nil
                                         ELSE "commit error"]]
    /\ UNCHANGED <<idle, txcalls>>
    /\ MigratorIdle

\* defer func() { _ = tx.Rollback(ctx) }(): without effect on a transaction
\* that is committed or closed; its error is dropped.
Rollback(g) ==
    /\ wtx[g].pc = "rollback"
    /\ \E out \in StmtOutcomes :
          wtx' = [wtx EXCEPT ![g] =
                    [@ EXCEPT !.rollbacks = @ + 1, !.pc = "release",
                              !.tx = IF @ = TxOpen /\ out = "ok"
                                     THEN TxRolledBack ELSE @]]
    /\ UNCHANGED <<idle, store, txcalls>>
    /\ MigratorIdle

\* defer conn.Release(): the connection goes back to the pool, which ends a
\* transaction the connection is still in; then WithinTx returns.
Release(g) ==
    /\ wtx[g].pc = "release"
    /\ idle' = idle \cup {wtx[g].conn}
    /\ wtx' = [wtx EXCEPT ![g] =
                 [@ EXCEPT !.released = @ + 1, !.pc = "idle",
                           !.tx = IF @ = TxOpen THEN TxClosed ELSE @]]
    /\ UNCHANGED <<store, txcalls>>
    /\ MigratorIdle

InitTxSpec ==
    /\ Init
    /\ disk = BaseDisk
    /\ opts = OptFull

NextTx ==
    \/ \E g \in Goroutines : WithinTx(g)
    \/ \E g \in Goroutines : Acquire(g)
    \/ \E g \in Goroutines : Begin(g)
    \/ \E g \in Goroutines : Fn(g)
    \/ \E g \in Goroutines : Commit(g)
    \/ \E g \in Goroutines : Rollback(g)
    \/ \E g \in Goroutines : Release(g)

SpecTx == InitTxSpec /\ [][NextTx]_vars

\* WithinTx of g has returned (or unwound with the panic of fn).
TxReturned(g) == wtx[g].pc = "idle" /\ wtx[g].token # 0

\* The call of g holds a connection: between Acquire and Release.
Holding(g) ==
    wtx[g].pc \in {"begin", "fn", "commit", "rollback", "release"}

\* The connections the calls in progress hold.
Held == {wtx[g].conn : g \in {h \in Goroutines : Holding(h)}}

(***************************************************************************)
(* C29 (as claimed).  WithinTx commits the transaction if and only if fn   *)
(* returns nil: when fn returns an error the transaction is rolled back    *)
(* and that error is returned, when Begin or Acquire fails fn is never     *)
(* called, and in every outcome the acquired connection is released        *)
(* exactly once before WithinTx returns.                                   *)
(***************************************************************************)
C29_CommitsIffFnNil ==
    \A g \in Goroutines :
        TxReturned(g) =>
            LET c == wtx[g]
            IN  /\ c.tx = TxCommitted <=> c.fnRes = Nil
                /\ c.fnRes = "fn error" =>
                      /\ c.tx \in {TxRolledBack, TxClosed}
                      /\ c.ret = "fn error"
                /\ c.ret \in {"acquire error", "begin error"} =>
                      c.fnCalls = 0
                /\ c.released = IF c.conn # 0 THEN 1 ELSE 0

(***************************************************************************)
(* C29 (amended).  WithinTx calls Commit if and only if fn returns nil,    *)
(* and the transaction is committed if and only if fn returned nil and     *)
(* that Commit succeeded: WithinTx returns nil exactly then.  When Commit  *)
(* fails its error is returned and nothing is committed.  When fn returns  *)
(* an error (or panics) Commit is not called, Rollback is, nothing is      *)
(* committed and that error is returned; when Begin or Acquire fails fn    *)
(* is never called; in every outcome the acquired connection is released   *)
(* exactly once before WithinTx returns, and no transaction stays open.    *)
(***************************************************************************)
C29_CommitAttemptedIffFnNil ==
    /\ Held \cap idle = {}
    /\ \A g, h \in Goroutines :
          (g # h /\ Holding(g) /\ Holding(h)) => wtx[g].conn # wtx[h].conn
    /\ \A g \in Goroutines :
          LET c == wtx[g]
          IN  /\ c.token \in store =>
                    c.fnRes = Nil /\ c.commits = 1 /\ c.tx = TxCommitted
              /\ c.fnCalls <= 1 /\ c.commits <= 1
              /\ c.commits = 1 => c.fnRes = Nil
              /\ Holding(g) => c.released = 0 /\ c.conn # 0
              /\ TxReturned(g) =>
                    /\ c.commits = 1 <=> c.fnRes = Nil
                    /\ c.tx = TxCommitted <=> c.ret = Nil
                    /\ c.tx = TxCommitted => c.fnRes = Nil
                    /\ (c.tx = TxCommitted /\ c.wrote) <=> c.token \in store
                    /\ c.tx # TxOpen
                    /\ c.ret = "commit error" =>
                          c.fnRes = Nil /\ c.tx = TxClosed
                    /\ (c.fnCalls = 1 /\ c.fnRes # Nil) =>
                          /\ c.ret = c.fnRes
                          /\ c.rollbacks = 1
                          /\ c.tx \in {TxRolledBack, TxClosed}
                    /\ c.fnCalls = 0 <=>
                          c.ret \in {"acquire error", "begin error"}
                    /\ c.ret = "acquire error" <=> c.conn = 0
                    /\ c.released = IF c.conn # 0 THEN 1 ELSE 0
                    /\ c.conn # 0 => c.conn \in idle \cup Held

\* fn wrote and returned nil, Commit failed: WithinTx returned the error of
\* Commit, nothing was committed and the connection was released once.
C29_Witness ==
    \E g \in Goroutines :
        /\ TxReturned(g)
        /\ wtx[g].fnRes = Nil
        /\ wtx[g].wrote
        /\ wtx[g].ret = "commit error"
        /\ wtx[g].token \notin store
        /\ wtx[g].released = 1

(***************************************************************************)
(* health.Manager: RegisterChecker, GetLiveness, GetReadiness.  resp is    *)
(* what each registered checker's Check returns during the call.           *)
(***************************************************************************)
HealthResult(status, now) == [Status |-> status, Timestamp |-> now]

\* performCheck: the cached result while it is fresh, unknown for a name
\* that is not registered, else the checker's result, which is cached.
performCheck(name, cfg, reg, cch, now, resp) ==
    IF /\ cfg.EnableCaching
       /\ name \in DOMAIN cch
       /\ now - cch[name].Timestamp < cfg.CacheDuration
    THEN [result |-> cch[name], cache |-> cch]
    ELSE IF name \notin reg
         THEN [result |-> HealthResult(HealthStatusUnknown, now),
               cache |-> cch]
    ELSE LET r == HealthResult(resp[name], now)
         IN  [result |-> r,
              cache |-> IF cfg.EnableCaching
                        THEN [n \in DOMAIN cch \cup {name} |->
                                 IF n = name THEN r ELSE cch[n]]
                        ELSE cch]

\* The second loop of performChecks: the overall status of the results.
RECURSIVE Overall(_, _)
Overall(results, overallStatus) ==
    IF results = <<>> THEN overallStatus
    ELSE LET s == Head(results).Status
             next ==
                 CASE s = HealthStatusUnhealthy -> HealthStatusUnhealthy
                   [] s = HealthStatusDegraded ->
                        IF overallStatus # HealthStatusUnhealthy
                        THEN HealthStatusDegraded ELSE overallStatus
                   [] s = HealthStatusHealthy ->
                        IF overallStatus = NoStatus
                        THEN HealthStatusHealthy ELSE overallStatus
                   [] OTHER -> overallStatus
         IN  Overall(Tail(results), next)

\* The first loop of performChecks: one performCheck per name, returning
\* at the first unhealthy result.
RECURSIVE CheckLoop(_, _, _, _, _, _, _)
CheckLoop(names, results, cfg, reg, cch, now, resp) ==
    IF names = <<>>
    THEN [result |-> HealthResult(Overall(results, NoStatus), now),
          cache |-> cch, reports |-> results]
    ELSE LET one == performCheck(Head(names), cfg, reg, cch, now, resp)
             all == Append(results, one.result)
         IN  IF one.result.Status = HealthStatusUnhealthy
             THEN [result |-> one.result, cache |-> one.cache,
                   reports |-> all]
             ELSE CheckLoop(Tail(names), all, cfg, reg, one.cache, now, resp)

performChecks(checkerNames, cfg, reg, cch, now, resp) ==
    IF Len(checkerNames) = 0
    THEN [result |-> HealthResult(HealthStatusHealthy, now), cache |-> cch,
          reports |-> <<>>]
    ELSE CheckLoop(checkerNames, <<>>, cfg, reg, cch, now, resp)

HealthIdle == UNCHANGED <<migratorVars, txVars>>

RegisterChecker ==
    /\ \E name \in CheckerNames \ checkers : checkers' = checkers \cup {name}
    /\ UNCHANGED <<hconfig, cache, hnow, hresult, hcalls>>
    /\ HealthIdle

\* What a call returned: the result of performChecks and the results of
\* the single checks behind it.
Returns(op, res) ==
    [op |-> op, Status |-> res.result.Status,
     Timestamp |-> res.result.Timestamp, reports |-> res.reports]

GetLiveness ==
    /\ hcalls < MaxHealthCalls
    /\ hcalls' = hcalls + 1
    /\ \E resp \in [CheckerNames -> HealthStatuses] :
          LET res == performChecks(hconfig.LivenessChecks, hconfig,
                                   checkers, cache, hnow, resp)
          IN  /\ cache' = res.cache
              /\ hresult' = Returns("GetLiveness", res)
    /\ UNCHANGED <<hconfig, checkers, hnow>>
    /\ HealthIdle

GetReadiness ==
    /\ hcalls < MaxHealthCalls
    /\ hcalls' = hcalls + 1
    /\ \E resp \in [CheckerNames -> HealthStatuses] :
          LET res == performChecks(hconfig.ReadinessChecks, hconfig,
                                   checkers, cache, hnow, resp)
          IN  /\ cache' = res.cache
              /\ hresult' = Returns("GetReadiness", res)
    /\ UNCHANGED <<hconfig, checkers, hnow>>
    /\ HealthIdle

\* Time passes between calls: a second, or the default cache duration.
Tick ==
    /\ \E d \in {1, 5} :
          /\ hnow + d <= MaxHealthClock
          /\ hnow' = hnow + d
    /\ UNCHANGED <<hconfig, checkers, cache, hresult, hcalls>>
    /\ HealthIdle

InitHealthSpec ==
    /\ InitMigrator
    /\ disk = BaseDisk
    /\ opts = OptFull
    /\ InitTx
    /\ InitHealth

NextHealth ==
    \/ RegisterChecker
    \/ GetLiveness
    \/ GetReadiness
    \/ Tick

SpecHealth == InitHealthSpec /\ [][NextHealth]_vars

(***************************************************************************)
(* C30.  GetLiveness and GetReadiness always return one of the four        *)
(* defined statuses (healthy, unhealthy, degraded, unknown) for every      *)
(* configuration and set of registered checkers, including when some or    *)
(* all configured checker names are not registered; and the result is      *)
(* unhealthy whenever any configured checker reports unhealthy.            *)
(***************************************************************************)
C30_DefinedStatus ==
    hresult.op # None =>
        /\ hresult.Status \in HealthStatuses
        /\ (\E i \in 1 .. Len(hresult.reports) :
               hresult.reports[i].Status = HealthStatusUnhealthy) =>
              hresult.Status = HealthStatusUnhealthy

====
